---- MODULE Spec2Model ----
(***************************************************************************)
(* Scan / record coordinator of sdr-scanner.                               *)
(*                                                                         *)
(* Scanner module (packages/main/src/modules/Scanner.ts, and its later     *)
(* revision kept in unnamed/part_008) and the recording half of the SDR    *)
(* service (packages/main/src/modules/SDRService.ts, lines 1-528).         *)
(*                                                                         *)
(* Everything runs on the Node event loop: one action is one handler run   *)
(* up to its first await.  radio.setFrequency is awaited, so a tune is a   *)
(* message in flight (pendingTunes) whose continuation runs later.         *)
(* setTimeout timers are sets of pending timer ids; the module variable    *)
(* that holds the handle is kept apart from the set, because the code      *)
(* overwrites handles without clearing them in places.  Time is abstract:  *)
(* a pending timer may fire at any moment.                                 *)
(*                                                                         *)
(* The transcription queue (TranscriptionService, kept in                  *)
(* packages/main/src/modules/Settings.ts from line 84 on) has its own      *)
(* variables and its own specification, TranscriptionSpec: the recorder    *)
(* feeds it one file path per finished recording and shares no state with  *)
(* it.                                                                     *)
(***************************************************************************)
EXTENDS Integers, Sequences, FiniteSets, TLC

\* ----- bounds of the model ------------------------------------------------
MaxPendingTunes == 2   \* tune requests in flight
MaxTimerId == 2        \* distinct setTimeout handles alive per timer kind
MaxSessions == 2       \* recording files created in one run
MaxJobs == 5           \* transcription jobs queued in one run
MaxFiles == 2          \* finished recordings handed to doneRecording
MaxNotifications == 3  \* notifications the renderer's log holds
MaxPlays == 3          \* audio:play requests that create a WAV reader

\* ----- data -----------------------------------------------------------------
\* Frequencies are written in MHz; 0 stands for "no frequency".
Freqs == {160, 161, 162, 163}
InitialFrequency == 160
ManualFreqs == {161, 163}
ProfileIds == {1, 2, 3}

\* scannerState.currentFrequency === null
Null == [Id |-> -1, FrequencyHz |-> 0]

Entry(id, f) == [Id |-> id, FrequencyHz |-> f]

\* Entry made by setFrequencyManually for a frequency outside the profile.
MinimalEntry(f) == [Id |-> 0, FrequencyHz |-> f]

\* SELECT ... WHERE ProfileId = ? AND Enabled = 1 ORDER BY FrequencyHz.
\* Profile 2 has no enabled frequency; profile 3 holds one frequency twice
\* (the table has no uniqueness constraint on FrequencyHz).
getEnabledByProfileId(profileId) ==
  CASE profileId = 1 -> <<Entry(1, 161), Entry(2, 162)>>
    [] profileId = 2 -> <<>>
    [] profileId = 3 -> <<Entry(3, 161), Entry(4, 161), Entry(5, 162)>>

\* Array.prototype.findIndex on FrequencyHz: 0-based, -1 when absent.
RECURSIVE findIndexFrom(_, _, _)
findIndexFrom(list, f, i) ==
  IF i > Len(list) THEN -1
  ELSE IF list[i].FrequencyHz = f THEN i - 1
  ELSE findIndexFrom(list, f, i + 1)

findIndex(list, f) == findIndexFrom(list, f, 1)

\* list[i] with the 0-based index of the source
At(list, i) == list[i + 1]

VARIABLES
  scannerRev,              \* "stored": Scanner.ts; "derived": part_008
  scannerState,            \* let scannerState
  unsquelchTimer,          \* let unsquelchTimer (0 = null)
  unsquelchPending,        \* unsquelch timeouts scheduled and not yet fired
  isRunning,               \* let isRunning / radio !== null
  radioFrequency,          \* radio.centerFrequency - radio.offset
  pendingTunes,            \* radio.setFrequency calls awaiting completion
  isRecordingEnabled,      \* let isRecordingEnabled
  currentRecordingWriter,  \* let currentRecordingWriter (0 = null)
  currentRecordingPath,    \* let currentRecordingPath (0 = null)
  recordingTimeoutTimer,   \* let recordingTimeoutTimer (0 = null)
  recordingPending,        \* recording timeouts scheduled and not yet fired
  openWriters,             \* WAV writers created and not yet ended
  nextSession,             \* number of the next recording file
  doneCount,               \* per file: calls of doneRecording(path)
  hasQuit,                 \* the process has exited
  transcriptionQueue,      \* const transcriptionQueue: jobs waiting, oldest first
  isProcessing,            \* let isProcessing
  isModelDownloaded,       \* let isModelDownloaded
  jobs,                    \* per job: where it is, and what was called on it
  startLog,                \* jobs in the order transcribeFile was invoked
  settleLog,               \* jobs in the order resolve / reject was called
  nextJob,                 \* number of the next job queueTranscription makes
  naming,                  \* one recording file name: made, then parsed
  recordingStore,          \* per finished file: what doneRecording did with it
  notifications,           \* 'scanner:started' / 'scanner:stopped' sent so far
  tuneOrigins,             \* per pending tune: the function that awaits it
  playback                 \* AudioPlayback.ts: state, and the speakers made

scannerVars == <<scannerRev, scannerState, unsquelchTimer, unsquelchPending>>
radioVars == <<isRunning, radioFrequency, pendingTunes>>
vars == <<scannerRev, scannerState, unsquelchTimer, unsquelchPending,
          isRunning, radioFrequency, pendingTunes,
          isRecordingEnabled, currentRecordingWriter, currentRecordingPath,
          recordingTimeoutTimer, recordingPending, openWriters,
          nextSession, doneCount, hasQuit,
          transcriptionQueue, isProcessing, isModelDownloaded, jobs,
          startLog, settleLog, nextJob, naming, recordingStore,
          notifications, tuneOrigins, playback>>
transcriptionVars == <<transcriptionQueue, isProcessing, isModelDownloaded,
                       jobs, startLog, settleLog, nextJob>>
\* Variables of the parts that are modelled on their own.
uiVars == <<notifications, tuneOrigins, playback>>
sideVars == <<naming, recordingStore, uiVars>>

Sessions == 1..MaxSessions
TimerIds == 1..MaxTimerId
Jobs == 1..MaxJobs
Files == 1..MaxFiles
Plays == 1..MaxPlays

InitialScannerState ==
  [isScanning |-> FALSE,
   profileId |-> 0,
   frequencies |-> <<>>,
   currentIndex |-> 0,
   currentFrequency |-> Null,
   hasReceivedActiveSignal |-> FALSE,
   waitingForUnsquelch |-> FALSE]

\* A job nobody has queued yet.
NoJob == [phase |-> "none", dequeues |-> 0, resolves |-> 0, rejects |-> 0,
          status |-> "none"]

\* Module state of TranscriptionService at load.
TranscriptionInit ==
  /\ transcriptionQueue = <<>>
  /\ isProcessing = FALSE
  /\ isModelDownloaded = FALSE
  /\ jobs = [j \in Jobs |-> NoJob]
  /\ startLog = <<>>
  /\ settleLog = <<>>
  /\ nextJob = 1

\* Module state of Scanner and SDRService at load.
ScanInit ==
  /\ scannerRev \in {"stored", "derived"}
  /\ scannerState = InitialScannerState
  /\ unsquelchTimer = 0
  /\ unsquelchPending = {}
  /\ isRunning = FALSE
  /\ radioFrequency = InitialFrequency
  /\ pendingTunes = <<>>
  /\ isRecordingEnabled = FALSE
  /\ currentRecordingWriter = 0
  /\ currentRecordingPath = 0
  /\ recordingTimeoutTimer = 0
  /\ recordingPending = {}
  /\ openWriters = {}
  /\ nextSession = 1
  /\ doneCount = [s \in Sessions |-> 0]
  /\ hasQuit = FALSE

\* No file name is being made or parsed.
NoTimestamp == [year |-> 0, month |-> 0, day |-> 0,
                hour |-> 0, minute |-> 0, second |-> 0]
NoParse == [frequency |-> -1, datetime |-> <<>>]
NoNaming == [frequencyHz |-> 0, timestamp |-> NoTimestamp,
             fileName |-> <<>>, parsed |-> NoParse]

\* A recording that is not finished yet, and the store before any is.
\*   phase   : "none", "parsing" (doneRecording awaits parseFile), "done"
\*   threw   : parseFile threw; durationMs, minDuration: as doneRecording read them
\*   deleted : fs.unlinkSync(filePath) was called
\*   rows    : the status of every row recordingRepository.create made for it
\*   enqueued: calls of queueTranscription(filePath); job: the job it made
NoFile == [phase |-> "none", threw |-> FALSE, durationMs |-> 0,
           minDuration |-> 0, deleted |-> FALSE,
           rows |-> <<>>, enqueued |-> 0, job |-> 0]
DEFAULT_SETTINGS == [minimumRecordingDuration |-> 1000]
NoStore == [files |-> [f \in Files |-> NoFile],
            minimumRecordingDuration |-> DEFAULT_SETTINGS.minimumRecordingDuration]

\* const state: PlaybackState of AudioPlayback.ts (0 = null), with the
\* playbacks audio:play has begun: "waiting" for the WAV format, "playing"
\* through a speaker that is open, "closed", or "failed".
NoPlaybackState == [filePath |-> 0, reader |-> 0, speaker |-> 0, isPlaying |-> FALSE]
NoPlayback ==
  [state |-> NoPlaybackState,
   plays |-> [p \in Plays |-> [phase |-> "none", filePath |-> 0]],
   next |-> 1]

UiInit ==
  /\ notifications = <<>>
  /\ tuneOrigins = <<>>
  /\ playback = NoPlayback

SideInit ==
  /\ naming = NoNaming
  /\ recordingStore = NoStore
  /\ UiInit

Init == ScanInit /\ TranscriptionInit /\ SideInit


\* ----- timers ---------------------------------------------------------------
\* Handle returned by setTimeout: the least id that is not pending (0 when the
\* model has run out of ids).
NewTimer(pend) ==
  IF TimerIds \ pend = {} THEN 0
  ELSE CHOOSE i \in TimerIds \ pend : \A j \in TimerIds \ pend : i <= j

\* ----- Scanner ----------------------------------------------------------------
\* The scanner's variables gathered into one value, so that a handler that
\* calls other functions can be written as a composition.
\*   threw   : the call ended in a thrown error / rejected promise
\*   blocked : the step would exceed a bound of the model
ScannerCtx ==
  [st |-> scannerState, timer |-> unsquelchTimer, pend |-> unsquelchPending,
   tunes |-> pendingTunes,
   threw |-> FALSE, blocked |-> FALSE]

\* A call of radio.setFrequency in flight.  track: the caller is the
\* setFrequencyManually of Scanner.ts, which updates scannerState after the
\* await; every other caller only notifies the renderer afterwards.
Tune(f, track) == [freq |-> f, track |-> track]

\* Export used by SDRService.ts (import {isScanning} from './Scanner.js').
isScanning(st) == st.isScanning

getCurrentIndex(st) ==
  IF st.currentFrequency = Null \/ Len(st.frequencies) = 0 THEN -1
  ELSE findIndex(st.frequencies, st.currentFrequency.FrequencyHz)

\* The index the scanner reports (getScannerStatus, notifications).
reportedIndex(st) ==
  IF scannerRev = "stored" THEN st.currentIndex ELSE getCurrentIndex(st)

\* setFrequency up to its await: throws when the SDR is not running, else
\* hands the request to the radio.  What follows the await is in TuneComplete.
setFrequency(c, frequencyHz, track) ==
  IF ~isRunning THEN [c EXCEPT !.threw = TRUE]
  ELSE IF Len(c.tunes) >= MaxPendingTunes THEN [c EXCEPT !.blocked = TRUE]
  ELSE [c EXCEPT !.tunes = Append(@, Tune(frequencyHz, track))]

clearUnsquelchTimer(c) ==
  IF c.timer # 0 THEN [c EXCEPT !.pend = @ \ {c.timer}, !.timer = 0] ELSE c

\* stopScan that also forgets where the scan stood.
stopScanResetsPosition(c) ==
  LET c1 == clearUnsquelchTimer(c)
  IN [c1 EXCEPT !.st = [@ EXCEPT !.isScanning = FALSE,
                                 !.currentIndex = 0,
                                 !.currentFrequency = Null,
                                 !.hasReceivedActiveSignal = FALSE,
                                 !.waitingForUnsquelch = FALSE]]

\* stopScan that leaves the two signal flags as they are.
stopScanKeepsFlags(c) ==
  LET c1 == clearUnsquelchTimer(c)
  IN [c1 EXCEPT !.st = [@ EXCEPT !.isScanning = FALSE]]

stopScan(c) ==
  LET c1 == clearUnsquelchTimer(c)
  IN [c1 EXCEPT !.st = [@ EXCEPT !.isScanning = FALSE,
                                 !.hasReceivedActiveSignal = FALSE,
                                 !.waitingForUnsquelch = FALSE]]

\* startScan that leaves the stored index of the previous list in place.
startScanKeepsIndex(c, profileId) ==
  LET c1 == clearUnsquelchTimer(c)
      c2 == IF c1.st.isScanning THEN stopScan(c1) ELSE c1
      frequencies == getEnabledByProfileId(profileId)
  IN IF Len(frequencies) = 0 THEN c2
     ELSE
       LET currentFreqHz == c2.st.currentFrequency.FrequencyHz
           foundIndex == IF currentFreqHz # 0
                         THEN findIndex(frequencies, currentFreqHz) ELSE -1
           startIndex == IF foundIndex # -1
                         THEN (foundIndex + 1) % Len(frequencies) ELSE 0
           st1 == [isScanning |-> TRUE,
                   profileId |-> profileId,
                   frequencies |-> frequencies,
                   currentIndex |-> c.st.currentIndex,
                   currentFrequency |-> At(frequencies, startIndex),
                   hasReceivedActiveSignal |-> FALSE,
                   waitingForUnsquelch |-> FALSE]
       IN setFrequency([c2 EXCEPT !.st = st1],
                       At(frequencies, startIndex).FrequencyHz, FALSE)

\* startScan that resumes on the matching entry itself, not on the one after.
startScanFromMatch(c, profileId) ==
  LET c1 == clearUnsquelchTimer(c)
      c2 == IF c1.st.isScanning THEN stopScan(c1) ELSE c1
      frequencies == getEnabledByProfileId(profileId)
  IN IF Len(frequencies) = 0 THEN c2
     ELSE
       LET currentFreqHz == c2.st.currentFrequency.FrequencyHz
           foundIndex == IF currentFreqHz # 0
                         THEN findIndex(frequencies, currentFreqHz) ELSE -1
           startIndex == IF foundIndex # -1 THEN foundIndex ELSE 0
           st1 == [isScanning |-> TRUE,
                   profileId |-> profileId,
                   frequencies |-> frequencies,
                   currentIndex |-> IF scannerRev = "stored" THEN startIndex ELSE 0,
                   currentFrequency |-> At(frequencies, startIndex),
                   hasReceivedActiveSignal |-> FALSE,
                   waitingForUnsquelch |-> FALSE]
       IN setFrequency([c2 EXCEPT !.st = st1],
                       At(frequencies, startIndex).FrequencyHz, FALSE)

startScan(c, profileId) ==
  LET c1 == clearUnsquelchTimer(c)
      c2 == IF c1.st.isScanning THEN stopScan(c1) ELSE c1
      frequencies == getEnabledByProfileId(profileId)
  IN IF Len(frequencies) = 0 THEN c2
     ELSE
       LET currentFreqHz == c2.st.currentFrequency.FrequencyHz
           foundIndex == IF currentFreqHz # 0
                         THEN findIndex(frequencies, currentFreqHz) ELSE -1
           startIndex == IF foundIndex # -1
                         THEN (foundIndex + 1) % Len(frequencies) ELSE 0
           st1 == [isScanning |-> TRUE,
                   profileId |-> profileId,
                   frequencies |-> frequencies,
                   currentIndex |-> IF scannerRev = "stored" THEN startIndex ELSE 0,
                   currentFrequency |-> At(frequencies, startIndex),
                   hasReceivedActiveSignal |-> FALSE,
                   waitingForUnsquelch |-> FALSE]
       IN setFrequency([c2 EXCEPT !.st = st1],
                       At(frequencies, startIndex).FrequencyHz, FALSE)

\* Scanner.ts: only while scanning, from the stored index.
moveToNextFrequencyStored(c) ==
  IF ~c.st.isScanning \/ Len(c.st.frequencies) = 0 THEN c
  ELSE
    LET currentIndex == (c.st.currentIndex + 1) % Len(c.st.frequencies)
        nextFreq == At(c.st.frequencies, currentIndex)
        st1 == [c.st EXCEPT !.currentIndex = currentIndex,
                            !.currentFrequency = nextFreq,
                            !.hasReceivedActiveSignal = FALSE,
                            !.waitingForUnsquelch = FALSE]
    IN setFrequency([c EXCEPT !.st = st1], nextFreq.FrequencyHz, FALSE)

\* part_008: also while held, from the index found by frequency.
moveToNextFrequencyDerived(c) ==
  IF Len(c.st.frequencies) = 0 THEN c
  ELSE
    LET currentIndex == getCurrentIndex(c.st)
        nextIndex == IF currentIndex = -1 THEN 0
                     ELSE (currentIndex + 1) % Len(c.st.frequencies)
        nextFreq == At(c.st.frequencies, nextIndex)
        st1 == [c.st EXCEPT !.currentFrequency = nextFreq,
                            !.hasReceivedActiveSignal = FALSE,
                            !.waitingForUnsquelch = FALSE]
    IN setFrequency([c EXCEPT !.st = st1], nextFreq.FrequencyHz, FALSE)

moveToNextFrequency(c) ==
  IF scannerRev = "stored" THEN moveToNextFrequencyStored(c)
  ELSE moveToNextFrequencyDerived(c)

handleAudioData(c, squelched) ==
  IF ~c.st.isScanning THEN c
  ELSE IF ~squelched THEN
    LET c1 == [c EXCEPT !.st = [@ EXCEPT !.hasReceivedActiveSignal = TRUE]]
    IN IF c1.st.waitingForUnsquelch
       THEN [clearUnsquelchTimer(c1) EXCEPT !.st = [@ EXCEPT !.waitingForUnsquelch = FALSE]]
       ELSE c1
  ELSE IF ~c.st.hasReceivedActiveSignal THEN moveToNextFrequency(c)
  ELSE IF ~c.st.waitingForUnsquelch THEN
    IF NewTimer(c.pend) = 0 THEN [c EXCEPT !.blocked = TRUE]
    ELSE [c EXCEPT !.st = [@ EXCEPT !.waitingForUnsquelch = TRUE],
                   !.timer = NewTimer(c.pend),
                   !.pend = @ \cup {NewTimer(c.pend)}]
  ELSE c

\* Callback of the timeout set in handleAudioData.
unsquelchTimeout(c) ==
  IF c.st.isScanning /\ c.st.waitingForUnsquelch THEN moveToNextFrequency(c) ELSE c

\* Array.prototype.find on FrequencyHz, Null when absent.
findByFrequency(list, f) ==
  IF findIndex(list, f) = -1 THEN Null ELSE At(list, findIndex(list, f))

\* The assignment to scannerState.currentFrequency in setFrequencyManually.
trackFrequency(st, frequencyHz) ==
  LET matchingFreq == findByFrequency(st.frequencies, frequencyHz)
  IN [st EXCEPT !.currentFrequency =
        IF matchingFreq # Null THEN matchingFreq ELSE MinimalEntry(frequencyHz)]

\* Scanner.ts: tune first, track the frequency after the await.
setFrequencyManuallyStored(c, frequencyHz) ==
  LET c1 == setFrequency(c, frequencyHz, TRUE)
  IN IF c1.threw THEN c ELSE c1

\* part_008: track the frequency first, roll back when the tune throws.
setFrequencyManuallyDerived(c, frequencyHz) ==
  LET c1 == setFrequency([c EXCEPT !.st = trackFrequency(@, frequencyHz)],
                         frequencyHz, FALSE)
  IN IF c1.threw THEN c ELSE c1

setFrequencyManually(c, frequencyHz) ==
  IF scannerRev = "stored" THEN setFrequencyManuallyStored(c, frequencyHz)
  ELSE setFrequencyManuallyDerived(c, frequencyHz)

\* What runs after `await radio.setFrequency(...)` resolves.
afterTune(c, t) ==
  IF t.track THEN [c EXCEPT !.st = trackFrequency(@, t.freq)] ELSE c

SetScanner(c) ==
  /\ ~c.blocked
  /\ scannerState' = c.st
  /\ unsquelchTimer' = c.timer
  /\ unsquelchPending' = c.pend
  /\ pendingTunes' = c.tunes
  /\ UNCHANGED scannerRev

\* ----- Recorder (SDRService.ts) ---------------------------------------------
RecorderCtx ==
  [writer |-> currentRecordingWriter, path |-> currentRecordingPath,
   timer |-> recordingTimeoutTimer, pend |-> recordingPending,
   open |-> openWriters, next |-> nextSession,
   done |-> doneCount, blocked |-> FALSE,
   threw |-> FALSE]                  \* the call ended in a thrown error

\* Post-recording processing is entered once per call, with the file's path.
doneRecording(r, filePath) == [r EXCEPT !.done[filePath] = @ + 1]

\* finalizeRecording that resets the module state without ending the writer.
finalizeRecordingNoEnd(r) ==
  IF r.writer = 0 \/ r.path = 0 THEN r
  ELSE
    LET r1 == IF r.timer # 0
              THEN [r EXCEPT !.pend = @ \ {r.timer}, !.timer = 0] ELSE r
        r3 == doneRecording(r1, r.path)
    IN [r3 EXCEPT !.writer = 0, !.path = 0]

\* finalizeRecording that leaves the recording timeout armed.
finalizeRecordingKeepsTimeout(r) ==
  IF r.writer = 0 \/ r.path = 0 THEN r
  ELSE
    LET r2 == [r EXCEPT !.open = @ \ {r.writer}]
        r3 == doneRecording(r2, r.path)
    IN [r3 EXCEPT !.writer = 0, !.path = 0]

\* finalizeRecording that ends the writer but keeps the module state.
finalizeRecordingNoReset(r) ==
  IF r.writer = 0 \/ r.path = 0 THEN r
  ELSE
    LET r1 == IF r.timer # 0
              THEN [r EXCEPT !.pend = @ \ {r.timer}, !.timer = 0] ELSE r
        r2 == [r1 EXCEPT !.open = @ \ {r.writer}]
    IN doneRecording(r2, r.path)

finalizeRecording(r) ==
  IF r.writer = 0 \/ r.path = 0 THEN r
  ELSE
    LET r1 == IF r.timer # 0
              THEN [r EXCEPT !.pend = @ \ {r.timer}, !.timer = 0] ELSE r
        r2 == [r1 EXCEPT !.open = @ \ {r.writer}]          \* writer.end()
        r3 == doneRecording(r2, r.path)
    IN [r3 EXCEPT !.writer = 0, !.path = 0]

\* The failing finalizeRecording, were its catch block to return.
finalizeRecordingEndThrowsAndReturns(r) ==
  IF r.writer = 0 \/ r.path = 0 THEN r
  ELSE IF r.timer # 0
       THEN [r EXCEPT !.pend = @ \ {r.timer}, !.timer = 0] ELSE r

\* finalizeRecording when currentRecordingWriter.end() throws: the timeout is
\* cleared before the try block, the catch block logs, doneRecording is not
\* reached, and the reset after the catch runs.  The writer was not ended:
\* it stays open, referenced by nothing.
finalizeRecordingEndThrows(r) ==
  IF r.writer = 0 \/ r.path = 0 THEN r
  ELSE
    LET r1 == IF r.timer # 0
              THEN [r EXCEPT !.pend = @ \ {r.timer}, !.timer = 0] ELSE r
    IN [r1 EXCEPT !.writer = 0, !.path = 0]

\* setTimeout(() => finalizeRecording(), getRecordingTimeout())
armRecordingTimeout(r) ==
  IF NewTimer(r.pend) = 0 THEN [r EXCEPT !.blocked = TRUE]
  ELSE [r EXCEPT !.timer = NewTimer(r.pend), !.pend = @ \cup {NewTimer(r.pend)}]

startRecording(r, scanning) ==
  IF ~isRunning THEN r
  ELSE IF r.writer # 0 THEN r
  ELSE IF r.next > MaxSessions THEN [r EXCEPT !.blocked = TRUE]
  ELSE
    LET r1 == [r EXCEPT !.writer = r.next, !.path = r.next,
                        !.open = @ \cup {r.next}, !.next = @ + 1]
    IN IF ~scanning THEN armRecordingTimeout(r1) ELSE r1

\* writeAudioToRecording that arms a new timeout without clearing the old one.
writeAudioToRecordingNoClear(r, scanning) ==
  IF r.writer = 0 THEN r
  ELSE IF ~scanning THEN armRecordingTimeout(r) ELSE r

writeAudioToRecording(r, scanning) ==
  IF r.writer = 0 THEN r
  ELSE IF ~scanning
       THEN armRecordingTimeout(
              IF r.timer # 0 THEN [r EXCEPT !.pend = @ \ {r.timer}] ELSE r)
       ELSE r

\* The recording branch without the test of isRecordingEnabled.
recordAudioDataAlwaysEnabled(r, squelched, scanning) ==
  IF ~squelched THEN
    LET r1 == IF r.writer = 0 THEN startRecording(r, scanning) ELSE r
    IN IF r1.writer # 0 THEN writeAudioToRecording(r1, scanning) ELSE r1
  ELSE r

\* The recording branch without the test of the squelch flag.
recordAudioDataAnyFrame(r, squelched, scanning) ==
  IF isRecordingEnabled THEN
    LET r1 == IF r.writer = 0 THEN startRecording(r, scanning) ELSE r
    IN IF r1.writer # 0 THEN writeAudioToRecording(r1, scanning) ELSE r1
  ELSE r

\* The recording branch of radio.on('audioData').
recordAudioData(r, squelched, scanning) ==
  IF isRecordingEnabled /\ ~squelched THEN
    LET r1 == IF r.writer = 0 THEN startRecording(r, scanning) ELSE r
    IN IF r1.writer # 0 THEN writeAudioToRecording(r1, scanning) ELSE r1
  ELSE r

\* writeAudioToRecording when currentRecordingWriter.write throws: the catch
\* block logs and calls finalizeRecording; nothing is thrown on.
writeAudioToRecordingWriteThrows(r) ==
  IF r.writer = 0 THEN r ELSE finalizeRecording(r)

\* The recording branch of radio.on('audioData') with a failing write.
recordAudioDataWriteThrows(r, squelched, scanning) ==
  IF isRecordingEnabled /\ ~squelched THEN
    LET r1 == IF r.writer = 0 THEN startRecording(r, scanning) ELSE r
    IN IF r1.writer # 0 THEN writeAudioToRecordingWriteThrows(r1) ELSE r1
  ELSE r

SetRecorder(r) ==
  /\ ~r.blocked
  /\ currentRecordingWriter' = r.writer
  /\ currentRecordingPath' = r.path
  /\ recordingTimeoutTimer' = r.timer
  /\ recordingPending' = r.pend
  /\ openWriters' = r.open
  /\ nextSession' = r.next
  /\ doneCount' = r.done

recorderState == <<currentRecordingWriter, currentRecordingPath,
                   recordingTimeoutTimer, recordingPending, openWriters,
                   nextSession, doneCount>>

\* ----- TranscriptionService (Settings.ts, from line 84) ------------------------
\* A job is the number queueTranscription gave it; jobs are numbered in the
\* order of the calls, and job n transcribes the n-th finished recording.
\*   phase : "none" not queued yet, "queued" in transcriptionQueue,
\*           "model" transcribeFile awaits ensureModelDownloaded,
\*           "whisper" the whisper process runs, "done" transcribeFile settled
\*   status: TranscriptionStatus of the job's recording in the database
TranscriptionCtx ==
  [queue |-> transcriptionQueue, processing |-> isProcessing,
   downloaded |-> isModelDownloaded, jobs |-> jobs,
   startLog |-> startLog, settleLog |-> settleLog]

\* transcribeFile up to its first suspension.
transcribeFile(t, job) ==
  [t EXCEPT !.jobs[job].phase = IF t.downloaded THEN "whisper" ELSE "model",
            !.startLog = Append(@, job)]

\* processQueue without the isProcessing test.
processQueueNoBusyTest(t) ==
  IF t.queue = <<>> THEN t
  ELSE
    LET job == Head(t.queue)
    IN transcribeFile([t EXCEPT !.processing = TRUE,
                                !.queue = Tail(@),
                                !.jobs[job].dequeues = @ + 1], job)

\* processQueue that takes the newest job (pop) instead of the oldest (shift).
processQueueNewestFirst(t) ==
  IF t.processing \/ t.queue = <<>> THEN t
  ELSE
    LET job == t.queue[Len(t.queue)]
    IN transcribeFile([t EXCEPT !.processing = TRUE,
                                !.queue = SubSeq(@, 1, Len(@) - 1),
                                !.jobs[job].dequeues = @ + 1], job)

\* processQueue up to `await transcribeFile(job.filePath)`.
processQueue(t) ==
  IF t.processing \/ t.queue = <<>> THEN t
  ELSE
    LET job == Head(t.queue)                                 \* shift()
    IN transcribeFile([t EXCEPT !.processing = TRUE,
                                !.queue = Tail(@),
                                !.jobs[job].dequeues = @ + 1], job)

\* job.resolve(result) / job.reject(error)
resolveJob(t, job) ==
  [t EXCEPT !.jobs[job].resolves = @ + 1, !.settleLog = Append(@, job)]

rejectJob(t, job) ==
  [t EXCEPT !.jobs[job].rejects = @ + 1, !.settleLog = Append(@, job)]

\* recordingRepository.updateTranscription(filePath, status, ...), called by
\* the then / catch that doneRecording hangs on the job's promise.
updateTranscription(t, job, status) == [t EXCEPT !.jobs[job].status = status]

\* The continuation that also rejects a job it has resolved.
processQueueResumeRejectsToo(t, job, ok) ==
  LET t1 == IF ok THEN rejectJob(resolveJob(t, job), job) ELSE rejectJob(t, job)
      t2 == processQueue([t1 EXCEPT !.processing = FALSE])
  IN updateTranscription(t2, job, IF ok THEN "success" ELSE "failed")

\* The continuation without the finally block on the failure path.
processQueueResumeStaysBusy(t, job, ok) ==
  LET t1 == IF ok THEN resolveJob(t, job) ELSE rejectJob(t, job)
      t2 == IF ok THEN processQueue([t1 EXCEPT !.processing = FALSE]) ELSE t1
  IN updateTranscription(t2, job, IF ok THEN "success" ELSE "failed")

\* The continuation whose finally block does not call processQueue again.
processQueueResumeNoRestart(t, job, ok) ==
  LET t1 == IF ok THEN resolveJob(t, job) ELSE rejectJob(t, job)
      t2 == [t1 EXCEPT !.processing = FALSE]
  IN updateTranscription(t2, job, IF ok THEN "success" ELSE "failed")

\* processQueue from the point where `await transcribeFile` returns or throws:
\* try / catch, then finally; the promise callbacks run after it as microtasks.
processQueueResume(t, job, ok) ==
  LET t1 == IF ok THEN resolveJob(t, job) ELSE rejectJob(t, job)
      t2 == processQueue([t1 EXCEPT !.processing = FALSE])
  IN updateTranscription(t2, job, IF ok THEN "success" ELSE "failed")

\* queueTranscription that pushes the job and does not call processQueue.
queueTranscriptionPushOnly(t, job) ==
  [t EXCEPT !.queue = Append(@, job),
            !.jobs[job].phase = "queued",
            !.jobs[job].status = "pending"]

\* queueTranscription(filePath), for the recording doneRecording has just
\* entered in the database with status 'pending'.
queueTranscription(t, job) ==
  processQueue([t EXCEPT !.queue = Append(@, job),
                         !.jobs[job].phase = "queued",
                         !.jobs[job].status = "pending"])

SetTranscription(t) ==
  /\ transcriptionQueue' = t.queue
  /\ isProcessing' = t.processing
  /\ isModelDownloaded' = t.downloaded
  /\ jobs' = t.jobs
  /\ startLog' = t.startLog
  /\ settleLog' = t.settleLog

\* ----- actions --------------------------------------------------------------
\* radio.on('audioData'): scanner first, then the recorder.
Frame(squelched) ==
  /\ ~hasQuit
  /\ isRunning
  /\ LET c == handleAudioData(ScannerCtx, squelched)
     IN /\ SetScanner(c)
        /\ SetRecorder(recordAudioData(RecorderCtx, squelched, isScanning(c.st)))
  /\ UNCHANGED <<hasQuit, transcriptionVars, sideVars, isRunning, radioFrequency, isRecordingEnabled>>

AudioData == \E squelched \in BOOLEAN : Frame(squelched)

\* The radio finishes the oldest tune; the awaiting function resumes.
TuneComplete ==
  /\ ~hasQuit
  /\ pendingTunes # <<>>
  /\ LET t == Head(pendingTunes)
     IN /\ radioFrequency' = t.freq
        /\ SetScanner(afterTune([ScannerCtx EXCEPT !.tunes = Tail(pendingTunes)], t))
  /\ UNCHANGED <<hasQuit, transcriptionVars, sideVars, isRunning, isRecordingEnabled, recorderState>>

UnsquelchTimerFires ==
  \E id \in unsquelchPending :
    /\ ~hasQuit
    /\ SetScanner(unsquelchTimeout([ScannerCtx EXCEPT !.pend = @ \ {id}]))
    /\ UNCHANGED <<hasQuit, transcriptionVars, sideVars, isRunning, radioFrequency, isRecordingEnabled, recorderState>>

RecordingTimeoutFires ==
  \E id \in recordingPending :
    /\ ~hasQuit
    /\ SetRecorder(finalizeRecording([RecorderCtx EXCEPT !.pend = @ \ {id}]))
    /\ UNCHANGED <<hasQuit, transcriptionVars, sideVars, scannerVars, radioVars, isRecordingEnabled>>

\* ipcMain.handle('scanner:start') with one profile id.
ScannerStartProfile(profileId) ==
  /\ ~hasQuit
  /\ SetScanner(startScan(ScannerCtx, profileId))
  /\ UNCHANGED <<hasQuit, transcriptionVars, sideVars, isRunning, radioFrequency, isRecordingEnabled, recorderState>>

ScannerStart == \E profileId \in ProfileIds : ScannerStartProfile(profileId)

ScannerStop ==
  /\ ~hasQuit
  /\ SetScanner(stopScan(ScannerCtx))
  /\ UNCHANGED <<hasQuit, transcriptionVars, sideVars, isRunning, radioFrequency, isRecordingEnabled, recorderState>>

\* ipcMain.handle('scanner:moveToNext') exists in part_008 only.
ScannerMoveToNext ==
  /\ ~hasQuit
  /\ scannerRev = "derived"
  /\ SetScanner(moveToNextFrequency(ScannerCtx))
  /\ UNCHANGED <<hasQuit, transcriptionVars, sideVars, isRunning, radioFrequency, isRecordingEnabled, recorderState>>

ScannerSetFrequency ==
  \E frequencyHz \in ManualFreqs :
    /\ ~hasQuit
    /\ SetScanner(setFrequencyManually(ScannerCtx, frequencyHz))
    /\ UNCHANGED <<hasQuit, transcriptionVars, sideVars, isRunning, radioFrequency, isRecordingEnabled, recorderState>>

\* ipcMain.handle('sdr:start'): a new radio, on its initial frequency.
SdrStart ==
  /\ ~hasQuit
  /\ ~isRunning
  /\ isRunning' = TRUE
  /\ radioFrequency' = InitialFrequency
  /\ pendingTunes' = <<>>
  /\ UNCHANGED <<hasQuit, transcriptionVars, sideVars, scannerRev, scannerState, unsquelchTimer, unsquelchPending,
                 isRecordingEnabled, recorderState>>

\* ipcMain.handle('sdr:stop') -> stopSDR.  Tunes still in flight die with the
\* radio's worker: their awaits never resume.
SdrStop ==
  /\ ~hasQuit
  /\ isRunning
  /\ SetRecorder(finalizeRecording(RecorderCtx))
  /\ isRunning' = FALSE
  /\ pendingTunes' = <<>>
  /\ UNCHANGED <<hasQuit, transcriptionVars, sideVars, scannerRev, scannerState, unsquelchTimer, unsquelchPending,
                 radioFrequency, isRecordingEnabled>>

\* ipcMain.handle('sdr:setFrequency'): tunes the radio past the scanner.
SdrSetFrequency ==
  \E frequency \in ManualFreqs :
    /\ ~hasQuit
    /\ isRunning
    /\ SetRecorder(finalizeRecording(RecorderCtx))
    /\ SetScanner(setFrequency(ScannerCtx, frequency, FALSE))
    /\ UNCHANGED <<hasQuit, transcriptionVars, sideVars, isRunning, radioFrequency, isRecordingEnabled>>

SdrStartRecording ==
  /\ ~hasQuit
  /\ isRunning
  /\ isRecordingEnabled' = TRUE
  /\ UNCHANGED <<hasQuit, transcriptionVars, sideVars, scannerVars, radioVars, recorderState>>

SdrStopRecording ==
  /\ ~hasQuit
  /\ isRecordingEnabled' = FALSE
  /\ SetRecorder(finalizeRecording(RecorderCtx))
  /\ UNCHANGED <<hasQuit, transcriptionVars, sideVars, scannerVars, radioVars>>

\* app.on('will-quit'): the open writer is ended directly, finalizeRecording
\* is not called, and the process exits.  Nothing of the module state
\* survives the exit (it is put back to its value at load); the files
\* written and what was done with them do.
WillQuit ==
  /\ ~hasQuit
  /\ hasQuit' = TRUE
  /\ openWriters' = openWriters \ {currentRecordingWriter}
  /\ scannerState' = InitialScannerState
  /\ unsquelchTimer' = 0
  /\ unsquelchPending' = {}
  /\ isRunning' = FALSE
  /\ radioFrequency' = InitialFrequency
  /\ pendingTunes' = <<>>
  /\ isRecordingEnabled' = FALSE
  /\ currentRecordingWriter' = 0
  /\ currentRecordingPath' = 0
  /\ recordingTimeoutTimer' = 0
  /\ recordingPending' = {}
  /\ UNCHANGED <<transcriptionVars, sideVars, scannerRev, nextSession, doneCount>>

Next ==
  \/ AudioData
  \/ TuneComplete
  \/ UnsquelchTimerFires
  \/ RecordingTimeoutFires
  \/ ScannerStop
  \/ ScannerMoveToNext
  \/ ScannerStart
  \/ ScannerSetFrequency
  \/ SdrStart
  \/ SdrStop
  \/ SdrSetFrequency
  \/ SdrStartRecording
  \/ SdrStopRecording
  \/ WillQuit

Spec == Init /\ [][Next]_vars

\* ----- actions of the transcription queue -------------------------------------
scanVars == <<scannerVars, radioVars, isRecordingEnabled, recorderState, hasQuit>>

\* doneRecording reaches queueTranscription for a recording that was kept.
QueueTranscription ==
  /\ nextJob <= MaxJobs
  /\ SetTranscription(queueTranscription(TranscriptionCtx, nextJob))
  /\ nextJob' = nextJob + 1
  /\ UNCHANGED <<scanVars, sideVars>>

\* ensureModelDownloaded settles for the job that awaits it: the model is
\* there (found on disk or downloaded) and whisper is spawned, or the
\* download failed or the binary is missing and transcribeFile throws.
ModelReady ==
  \E job \in Jobs, ok \in BOOLEAN :
    /\ jobs[job].phase = "model"
    /\ LET t == TranscriptionCtx
       IN IF ok
          THEN SetTranscription([t EXCEPT !.downloaded = TRUE,
                                          !.jobs[job].phase = "whisper"])
          ELSE SetTranscription(
                 processQueueResume([t EXCEPT !.jobs[job].phase = "done"], job, FALSE))
    /\ UNCHANGED <<nextJob, scanVars, sideVars>>

\* whisper.on('close'): exit code 0 with the text file written, or a failure.
WhisperCloses ==
  \E job \in Jobs, ok \in BOOLEAN :
    /\ jobs[job].phase = "whisper"
    /\ SetTranscription(
         processQueueResume([TranscriptionCtx EXCEPT !.jobs[job].phase = "done"], job, ok))
    /\ UNCHANGED <<nextJob, scanVars, sideVars>>

\* initialize() starts ensureModelDownloaded in the background; this is the
\* moment it finds or has fetched the model.
BackgroundModelReady ==
  /\ ~isModelDownloaded
  /\ isModelDownloaded' = TRUE
  /\ UNCHANGED <<transcriptionQueue, isProcessing, jobs, startLog, settleLog,
                 nextJob, scanVars, sideVars>>

TranscriptionNext ==
  \/ QueueTranscription
  \/ BackgroundModelReady
  \/ ModelReady
  \/ WhisperCloses

\* The queue on its own: scanner and recorder stay in their state at load.
TranscriptionSpecInit ==
  ScanInit /\ scannerRev = "stored" /\ TranscriptionInit /\ SideInit

TranscriptionSpec == TranscriptionSpecInit /\ [][TranscriptionNext]_vars

\* The queue under the assumption that every invocation of the engine
\* completes: a pending ensureModelDownloaded settles and a spawned whisper
\* closes.  Nothing is assumed about when, or whether, jobs are enqueued.
TranscriptionFairSpec ==
  /\ TranscriptionSpecInit
  /\ [][TranscriptionNext]_vars
  /\ WF_vars(ModelReady)
  /\ WF_vars(WhisperCloses)

\* ----- recording file names (SDRService.ts 73-82, Database.ts 461-479) -------
\* A string is a sequence of one-character strings.
Digits == <<"0", "1", "2", "3", "4", "5", "6", "7", "8", "9">>
isDigit(ch) == \E d \in 1..10 : Digits[d] = ch
digitValue(ch) == (CHOOSE d \in 1..10 : Digits[d] = ch) - 1

\* Number.prototype.toString for a non-negative integer.
RECURSIVE toString(_)
toString(n) ==
  IF n < 10 THEN <<Digits[n + 1]>>
  ELSE toString(n \div 10) \o <<Digits[(n % 10) + 1]>>

\* String.prototype.padStart
RECURSIVE padStart(_, _, _)
padStart(s, targetLength, ch) ==
  IF Len(s) >= targetLength THEN s ELSE padStart(<<ch>> \o s, targetLength, ch)

\* (frequencyHz / 1_000_000).toFixed(3): three decimals, rounded to nearest.
toFixed3(frequencyHz) ==
  LET thousandths == (frequencyHz + 500) \div 1000
  IN toString(thousandths \div 1000) \o <<".">>
       \o padStart(toString(thousandths % 1000), 3, "0")

\* String.prototype.indexOf, counted from 1; 0 when absent.
indexOf(s, ch) ==
  IF \E i \in 1..Len(s) : s[i] = ch
  THEN CHOOSE i \in 1..Len(s) : s[i] = ch /\ \A j \in 1..(i - 1) : s[j] # ch
  ELSE 0

\* String.prototype.replace with a string pattern: the first occurrence only.
replace(s, from, to) ==
  IF indexOf(s, from) = 0 THEN s ELSE [s EXCEPT ![indexOf(s, from)] = to]

\* dayjs().format('MM-DD-YYYY-HH-mm-ss')
format(now) ==
  padStart(toString(now.month), 2, "0") \o <<"-">>
    \o padStart(toString(now.day), 2, "0") \o <<"-">>
    \o padStart(toString(now.year), 4, "0") \o <<"-">>
    \o padStart(toString(now.hour), 2, "0") \o <<"-">>
    \o padStart(toString(now.minute), 2, "0") \o <<"-">>
    \o padStart(toString(now.second), 2, "0")

WavExtension == <<".", "w", "a", "v">>

\* createRecordingFileName that writes the day before the month.
createRecordingFileNameDayFirst(frequencyHz, now) ==
  LET freqFormatted == replace(toFixed3(frequencyHz), ".", "-")
      dayFirst == [now EXCEPT !.month = now.day, !.day = now.month]
  IN freqFormatted \o <<"_">> \o format(dayFirst) \o WavExtension

\* createRecordingFileName(frequencyHz), with dayjs() = now.
createRecordingFileName(frequencyHz, now) ==
  LET freqMHz == toFixed3(frequencyHz)
      freqFormatted == replace(freqMHz, ".", "-")
      timestamp == format(now)
  IN freqFormatted \o <<"_">> \o timestamp \o WavExtension

\* String.prototype.split on a one-character separator.
RECURSIVE split(_, _)
split(s, sep) ==
  IF indexOf(s, sep) = 0 THEN <<s>>
  ELSE <<SubSeq(s, 1, indexOf(s, sep) - 1)>>
         \o split(SubSeq(s, indexOf(s, sep) + 1, Len(s)), sep)

\* The longest prefix of decimal digits.
RECURSIVE takeDigits(_)
takeDigits(s) ==
  IF s = <<>> \/ ~isDigit(Head(s)) THEN <<>>
  ELSE <<Head(s)>> \o takeDigits(Tail(s))

RECURSIVE toNumber(_)
toNumber(digits) ==
  IF digits = <<>> THEN 0
  ELSE 10 * toNumber(SubSeq(digits, 1, Len(digits) - 1))
         + digitValue(digits[Len(digits)])

\* parseFloat on an unsigned decimal: the digits before and after the point;
\* whatever follows them is ignored.
parseFloat(s) ==
  LET whole == takeDigits(s)
      rest == SubSeq(s, Len(whole) + 1, Len(s))
  IN [whole |-> whole,
      fraction |-> IF rest # <<>> /\ Head(rest) = "."
                   THEN takeDigits(Tail(rest)) ELSE <<>>]

\* Math.round(freqMHz * 1_000_000)
roundToHz(freqMHz) ==
  LET micro == SubSeq(freqMHz.fraction \o <<"0", "0", "0", "0", "0", "0", "0">>, 1, 7)
  IN toNumber(freqMHz.whole) * 1000000 + toNumber(SubSeq(micro, 1, 6))
       + (IF digitValue(micro[7]) >= 5 THEN 1 ELSE 0)

\* What a template literal prints for a missing array element.
Undefined == <<"u", "n", "d", "e", "f", "i", "n", "e", "d">>

\* parseRecordingFileName(fileName); NoParse when it throws (no '_' in the
\* name, so that datePart is undefined).
parseRecordingFileName(fileName) ==
  LET n == Len(fileName)
      nameWithoutExt == IF n >= 4 /\ SubSeq(fileName, n - 3, n) = WavExtension
                        THEN SubSeq(fileName, 1, n - 4) ELSE fileName
      parts == split(nameWithoutExt, "_")
  IN IF Len(parts) < 2 THEN NoParse
     ELSE
       LET freqPart == parts[1]
           datePart == parts[2]
           freqMHz == parseFloat(replace(freqPart, "-", "."))
           frequencyHz == roundToHz(freqMHz)
           d == split(datePart, "-")
           field(i) == IF i <= Len(d) THEN d[i] ELSE Undefined
           datetime == field(3) \o <<"-">> \o field(1) \o <<"-">> \o field(2)
                         \o <<"T">> \o field(4) \o <<":">> \o field(5)
                         \o <<":">> \o field(6)
       IN [frequency |-> frequencyHz, datetime |-> datetime]

\* Frequencies in Hz: whole kHz with one, two, three and four digits of MHz
\* and with zeros in the fraction, and one that is not a whole number of kHz.
NamingFrequencies ==
  {161175000, 162025000, 88000000, 1090000000, 500000, 7005000, 161175400}

Timestamp(y, mo, d, h, mi, s) ==
  [year |-> y, month |-> mo, day |-> d, hour |-> h, minute |-> mi, second |-> s]

NamingTimestamps ==
  {Timestamp(2025, 1, 20, 6, 19, 45), Timestamp(2025, 12, 31, 23, 59, 59),
   Timestamp(2024, 2, 29, 0, 0, 0), Timestamp(1999, 10, 10, 10, 10, 10),
   Timestamp(2025, 7, 4, 12, 0, 1), Timestamp(2030, 11, 9, 9, 5, 30)}

\* startRecording names the file of a new session.
CreateRecordingFileName ==
  /\ naming.fileName = <<>>
  /\ naming' = [naming EXCEPT
                  !.fileName = createRecordingFileName(naming.frequencyHz,
                                                       naming.timestamp)]
  /\ UNCHANGED <<scanVars, transcriptionVars, recordingStore, uiVars>>

\* doneRecording reads frequency and time back from the name.
ParseRecordingFileName ==
  /\ naming.fileName # <<>>
  /\ naming.parsed = NoParse
  /\ naming' = [naming EXCEPT !.parsed = parseRecordingFileName(naming.fileName)]
  /\ UNCHANGED <<scanVars, transcriptionVars, recordingStore, uiVars>>

NamingNext == CreateRecordingFileName \/ ParseRecordingFileName

\* One recording, on any of the frequencies, at any of the times.
NamingInit ==
  /\ ScanInit /\ scannerRev = "stored" /\ TranscriptionInit
  /\ recordingStore = NoStore
  /\ UiInit
  /\ \E frequencyHz \in NamingFrequencies, now \in NamingTimestamps :
       naming = [NoNaming EXCEPT !.frequencyHz = frequencyHz, !.timestamp = now]

NamingSpec == NamingInit /\ [][NamingNext]_vars

\* ----- doneRecording (SDRService.ts 216-255) ----------------------------------
\* Durations parseFile may report, in ms (0 also stands for a missing
\* format.duration), and values of the minimumRecordingDuration setting.
DurationsMs == {0, 999, 1000, 3000}
MinimumDurations == {0, 1000, 3000}

\* The variables doneRecording works on, gathered into one value.
StoreCtx == [store |-> recordingStore, t |-> TranscriptionCtx, nextJob |-> nextJob]

\* recordingRepository.create(filePath, frequency, datetime, status)
create(x, file, transcriptionStatus) ==
  [x EXCEPT !.store.files[file].rows = Append(@, transcriptionStatus)]

\* The call queueTranscription(filePath) in doneRecording: the job it makes is
\* the next one of the queue.
enqueue(x, file) ==
  [x EXCEPT !.store.files[file].enqueued = @ + 1,
            !.store.files[file].job = x.nextJob,
            !.t = queueTranscription(x.t, x.nextJob),
            !.nextJob = @ + 1]

\* The continuation that also deletes a recording of exactly the minimum.
doneRecordingResumeDeletesAtMinimum(x, file, threw, durationMs) ==
  LET minDuration == x.store.minimumRecordingDuration
      x1 == [x EXCEPT !.store.files[file].phase = "done",
                      !.store.files[file].threw = threw,
                      !.store.files[file].durationMs = durationMs,
                      !.store.files[file].minDuration = minDuration]
  IN IF threw THEN x1
     ELSE IF durationMs <= minDuration
          THEN [x1 EXCEPT !.store.files[file].deleted = TRUE]
          ELSE enqueue(create(x1, file, "pending"), file)

\* doneRecording from the point where `await parseFile(filePath)` returns
\* durationMs or throws.
doneRecordingResume(x, file, threw, durationMs) ==
  LET minDuration == x.store.minimumRecordingDuration
      x1 == [x EXCEPT !.store.files[file].phase = "done",
                      !.store.files[file].threw = threw,
                      !.store.files[file].durationMs = durationMs,
                      !.store.files[file].minDuration = minDuration]
  IN IF threw THEN x1                                   \* catch: logged only
     ELSE IF durationMs < minDuration
          THEN [x1 EXCEPT !.store.files[file].deleted = TRUE]   \* unlinkSync
          ELSE enqueue(create(x1, file, "pending"), file)

SetStore(x) ==
  /\ recordingStore' = x.store
  /\ SetTranscription(x.t)
  /\ nextJob' = x.nextJob

\* finalizeRecording calls doneRecording(filePath) for the next finished
\* file; doneRecording runs up to `await parseFile(filePath)`.
DoneRecordingCalled ==
  \E file \in Files :
    /\ recordingStore.files[file].phase = "none"
    /\ \A g \in Files : g < file => recordingStore.files[g].phase # "none"
    /\ recordingStore' = [recordingStore EXCEPT !.files[file].phase = "parsing"]
    /\ UNCHANGED <<scanVars, transcriptionVars, naming, uiVars>>

\* parseFile settles for one of the files that await it.
ParseFileSettles ==
  \E file \in Files, threw \in BOOLEAN, durationMs \in DurationsMs :
    /\ recordingStore.files[file].phase = "parsing"
    /\ threw => durationMs = 0
    /\ SetStore(doneRecordingResume(StoreCtx, file, threw, durationMs))
    /\ UNCHANGED <<scanVars, naming, uiVars>>

\* ipcMain.handle('settings:update') with a new minimumRecordingDuration.
SettingsUpdate ==
  \E minimumRecordingDuration \in MinimumDurations :
    /\ recordingStore' = [recordingStore EXCEPT
                            !.minimumRecordingDuration = minimumRecordingDuration]
    /\ UNCHANGED <<scanVars, transcriptionVars, naming, uiVars>>

RecordingStoreNext ==
  \/ DoneRecordingCalled
  \/ ParseFileSettles
  \/ SettingsUpdate
  \/ BackgroundModelReady
  \/ ModelReady
  \/ WhisperCloses

\* Finished recordings on their own: scanner and recorder stay at load state.
RecordingStoreInit ==
  /\ ScanInit /\ scannerRev = "stored" /\ TranscriptionInit /\ SideInit

RecordingStoreSpec == RecordingStoreInit /\ [][RecordingStoreNext]_vars

\* ----- the recorder with a failing writer.end() -------------------------------
\* The recording timeout expires and end() throws in finalizeRecording.
RecordingTimeoutFiresEndThrows ==
  \E id \in recordingPending :
    /\ ~hasQuit
    /\ currentRecordingWriter # 0
    /\ SetRecorder(finalizeRecordingEndThrows([RecorderCtx EXCEPT !.pend = @ \ {id}]))
    /\ UNCHANGED <<hasQuit, transcriptionVars, sideVars, scannerVars, radioVars,
                   isRecordingEnabled>>

\* sdr:stopRecording, and end() throws in finalizeRecording.
SdrStopRecordingEndThrows ==
  /\ ~hasQuit
  /\ currentRecordingWriter # 0
  /\ isRecordingEnabled' = FALSE
  /\ SetRecorder(finalizeRecordingEndThrows(RecorderCtx))
  /\ UNCHANGED <<hasQuit, transcriptionVars, sideVars, scannerVars, radioVars>>

\* A non-squelched frame arrives with recording enabled, and the write of
\* its payload throws.
FrameWriteThrows ==
  /\ ~hasQuit
  /\ isRunning
  /\ isRecordingEnabled
  /\ LET c == handleAudioData(ScannerCtx, FALSE)
     IN /\ SetScanner(c)
        /\ SetRecorder(recordAudioDataWriteThrows(RecorderCtx, FALSE, isScanning(c.st)))
  /\ UNCHANGED <<hasQuit, transcriptionVars, sideVars, isRunning, radioFrequency,
                 isRecordingEnabled>>

\* The recorder in hold mode (no scan is started), with and without the
\* failure.
RecorderFaultNext ==
  \/ SdrStart
  \/ SdrStop
  \/ SdrStartRecording
  \/ SdrStopRecording
  \/ SdrSetFrequency
  \/ TuneComplete
  \/ AudioData
  \/ RecordingTimeoutFires
  \/ RecordingTimeoutFiresEndThrows
  \/ SdrStopRecordingEndThrows
  \/ FrameWriteThrows

RecorderFaultSpec == Init /\ [][RecorderFaultNext]_vars

\* ----- scanner notifications (Scanner.ts 60-65, 122, 164) ----------------------
\* notifyRenderer('scanner:started') runs in startScan after the await of the
\* tune, notifyRenderer('scanner:stopped') in stopScan when it found the scan
\* running.  tuneOrigins names, for each tune in flight, the function whose
\* continuation waits for it.  The main window exists throughout.
awaitedBy(c, origin) ==
  IF Len(c.tunes) > Len(pendingTunes) THEN Append(tuneOrigins, origin)
  ELSE tuneOrigins

\* The notification stopScan sends.
stopScanNotifies(log) ==
  IF scannerState.isScanning THEN Append(log, "stopped") ELSE log

NotifyScannerStart ==
  \E profileId \in ProfileIds :
    /\ ~hasQuit
    /\ Len(stopScanNotifies(notifications)) <= MaxNotifications
    /\ LET c == startScan(ScannerCtx, profileId)
       IN /\ SetScanner(c)
          /\ tuneOrigins' = awaitedBy(c, "startScan")
    /\ notifications' = stopScanNotifies(notifications)
    /\ UNCHANGED <<hasQuit, transcriptionVars, naming, recordingStore, playback,
                   isRunning, radioFrequency, isRecordingEnabled, recorderState>>

NotifyScannerStop ==
  /\ ~hasQuit
  /\ Len(stopScanNotifies(notifications)) <= MaxNotifications
  /\ SetScanner(stopScan(ScannerCtx))
  /\ notifications' = stopScanNotifies(notifications)
  /\ UNCHANGED <<hasQuit, transcriptionVars, naming, recordingStore, playback,
                 tuneOrigins, isRunning, radioFrequency, isRecordingEnabled,
                 recorderState>>

NotifyAudioData ==
  \E squelched \in BOOLEAN :
    /\ ~hasQuit
    /\ isRunning
    /\ LET c == handleAudioData(ScannerCtx, squelched)
       IN /\ SetScanner(c)
          /\ SetRecorder(recordAudioData(RecorderCtx, squelched, isScanning(c.st)))
          /\ tuneOrigins' = awaitedBy(c, "moveToNextFrequency")
    /\ UNCHANGED <<hasQuit, transcriptionVars, naming, recordingStore, playback,
                   notifications, isRunning, radioFrequency, isRecordingEnabled>>

NotifyUnsquelchTimerFires ==
  \E id \in unsquelchPending :
    /\ ~hasQuit
    /\ LET c == unsquelchTimeout([ScannerCtx EXCEPT !.pend = @ \ {id}])
       IN /\ SetScanner(c)
          /\ tuneOrigins' = awaitedBy(c, "moveToNextFrequency")
    /\ UNCHANGED <<hasQuit, transcriptionVars, naming, recordingStore, playback,
                   notifications, isRunning, radioFrequency, isRecordingEnabled,
                   recorderState>>

\* The radio finishes the oldest tune; startScan resumes with its
\* notification, moveToNextFrequency with a frequencyChange only.
NotifyTuneComplete ==
  /\ ~hasQuit
  /\ pendingTunes # <<>>
  /\ LET t == Head(pendingTunes)
         log == IF Head(tuneOrigins) = "startScan"
                THEN Append(notifications, "started") ELSE notifications
     IN /\ Len(log) <= MaxNotifications
        /\ radioFrequency' = t.freq
        /\ SetScanner(afterTune([ScannerCtx EXCEPT !.tunes = Tail(pendingTunes)], t))
        /\ notifications' = log
        /\ tuneOrigins' = Tail(tuneOrigins)
  /\ UNCHANGED <<hasQuit, transcriptionVars, naming, recordingStore, playback,
                 isRunning, isRecordingEnabled, recorderState>>

NotifyNext ==
  \/ SdrStart
  \/ NotifyScannerStart
  \/ NotifyScannerStop
  \/ NotifyAudioData
  \/ NotifyUnsquelchTimerFires
  \/ NotifyTuneComplete

\* The scanner with the notifications it sends; the SDR, once started, runs.
NotifySpec == Init /\ [][NotifyNext]_vars

\* ----- AudioPlayback.ts --------------------------------------------------------
PlaybackFiles == {1, 2}

\* stopPlayback: the speaker held in the state is closed, the reader
\* destroyed, the state reset.
stopPlayback(pb) ==
  [pb EXCEPT !.plays = IF pb.state.speaker # 0
                       THEN [@ EXCEPT ![pb.state.speaker].phase = "closed"]
                       ELSE @,
             !.state = NoPlaybackState]

\* ipcMain.handle('audio:play') up to its await: a playing playback is
\* stopped; a file that does not exist ends the handler; else a reader is
\* made and the handler waits for the reader's 'format' event.
AudioPlay ==
  \E filePath \in PlaybackFiles, exists \in BOOLEAN :
    /\ playback.next <= MaxPlays
    /\ LET pb == IF playback.state.isPlaying THEN stopPlayback(playback)
                 ELSE playback
       IN playback' =
            IF ~exists THEN pb
            ELSE [pb EXCEPT !.plays[pb.next] =
                              [phase |-> "waiting", filePath |-> filePath],
                            !.next = @ + 1]
    /\ UNCHANGED <<scanVars, transcriptionVars, naming, recordingStore,
                   notifications, tuneOrigins>>

\* reader.on('format'): the speaker is made and piped to, and the state is
\* overwritten with this playback.
FormatParsed ==
  \E p \in Plays :
    /\ playback.plays[p].phase = "waiting"
    /\ playback' = [playback EXCEPT
         !.plays[p].phase = "playing",
         !.state = [filePath |-> playback.plays[p].filePath, reader |-> p,
                    speaker |-> p, isPlaying |-> TRUE]]
    /\ UNCHANGED <<scanVars, transcriptionVars, naming, recordingStore,
                   notifications, tuneOrigins>>

\* The promise is rejected (reader or file stream error, or new Speaker
\* throws): the catch block calls stopPlayback.
PlayFails ==
  \E p \in Plays :
    /\ playback.plays[p].phase = "waiting"
    /\ playback' = stopPlayback([playback EXCEPT !.plays[p].phase = "failed"])
    /\ UNCHANGED <<scanVars, transcriptionVars, naming, recordingStore,
                   notifications, tuneOrigins>>

\* speaker.on('close') / speaker.on('error') of a speaker that was open (the
\* file has been played to its end, or the device failed): stopPlayback.
SpeakerCloses ==
  \E p \in Plays :
    /\ playback.plays[p].phase = "playing"
    /\ playback' = stopPlayback([playback EXCEPT !.plays[p].phase = "closed"])
    /\ UNCHANGED <<scanVars, transcriptionVars, naming, recordingStore,
                   notifications, tuneOrigins>>

\* ipcMain.handle('audio:stop')
AudioStop ==
  /\ playback' = stopPlayback(playback)
  /\ UNCHANGED <<scanVars, transcriptionVars, naming, recordingStore,
                 notifications, tuneOrigins>>

PlaybackNext ==
  \/ AudioPlay
  \/ FormatParsed
  \/ PlayFails
  \/ SpeakerCloses
  \/ AudioStop

PlaybackInit ==
  ScanInit /\ scannerRev = "stored" /\ TranscriptionInit /\ SideInit

PlaybackSpec == PlaybackInit /\ [][PlaybackNext]_vars

\* ----- properties ------------------------------------------------------------

\* C1: in every reachable state at most one recording session (a WAV writer
\* that was created and not yet ended) exists, and the writer the module
\* variable holds is that one.
C1_AtMostOneRecordingSession ==
  /\ Cardinality(openWriters) <= 1
  /\ openWriters = IF currentRecordingWriter = 0 THEN {} ELSE {currentRecordingWriter}

\* A second session is open after the first one was finalized.
C1_Witness ==
  /\ currentRecordingWriter = 2
  /\ openWriters = {2}
  /\ doneCount[1] = 1

\* A step in which the scanner advances to the next frequency and asks the
\* radio to re-tune: a squelched frame on a channel without signal, the
\* unsquelch-wait expiry, or the manual move-to-next.
ScanAdvance ==
  /\ AudioData \/ UnsquelchTimerFires \/ ScannerMoveToNext
  /\ Len(pendingTunes') > Len(pendingTunes)

\* The radio is tuned to the frequency the scanner takes as current.
Tuned == radioFrequency = scannerState.currentFrequency.FrequencyHz

\* C2: whenever the scanner advances to the next frequency, any open
\* recording is finalized before the receiver is re-tuned (so that the file
\* cannot receive frames of the next frequency).
C2_AdvanceFinalizesRecording ==
  [][(ScanAdvance /\ Tuned) =>
       (currentRecordingWriter' = 0 /\ openWriters' = {})]_vars

\* C3: setFrequencyManually finalizes a recording that is open when it is
\* called, so that the file is closed before any frame of the new frequency
\* is written and the next non-squelched frame goes into a new session.
C3_ManualChangeFinalizesFirst ==
  [][(/\ ScannerSetFrequency
      /\ Len(pendingTunes') > Len(pendingTunes)
      /\ currentRecordingWriter # 0)
     => (currentRecordingWriter' = 0 /\ openWriters' = {})]_vars

\* C4: stopScan finalizes any open recording before it returns: right after
\* scanner:stop, no recording that was opened while scanning (open, with no
\* recording timeout armed) is still open.
C4_StopFinalizesRecording ==
  [][(/\ ScannerStop
      /\ scannerState.isScanning
      /\ Tuned
      /\ currentRecordingWriter # 0
      /\ recordingPending = {})
     => (currentRecordingWriter' = 0 /\ openWriters' = {})]_vars

\* C5: finalizeRecording is idempotent.  With a session open, two calls in a
\* row end the writer and call doneRecording exactly once for its path; with
\* no session open a call changes nothing.
C5_FinalizeIdempotent ==
  LET r1 == finalizeRecording(RecorderCtx)
      r2 == finalizeRecording(r1)
  IN /\ r2 = r1
     /\ currentRecordingWriter = 0 => r1 = RecorderCtx
     /\ currentRecordingWriter # 0 =>
          /\ r2.done = [doneCount EXCEPT ![currentRecordingPath] = @ + 1]
          /\ r2.writer = 0
          /\ r2.open = {}

\* A session is open with its timeout armed after an earlier one was finalized.
C5_Witness ==
  /\ currentRecordingWriter = 2
  /\ recordingTimeoutTimer \in recordingPending
  /\ doneCount = [s \in Sessions |-> IF s = 1 THEN 1 ELSE 0]

\* A non-squelched frame received while held with recording enabled.
HoldFrame ==
  /\ ~scannerState.isScanning
  /\ isRecordingEnabled
  /\ Frame(FALSE)

\* C6: while not scanning with recording enabled, a non-squelched frame
\* leaves a session open (a new one when none was open) with exactly one
\* recording timeout pending, the one just armed; a recording timeout is
\* pending only while a session is open; when it fires, the session is
\* finalized, and no session is finalized twice.
C6_HoldTimeoutFinalizesOnce ==
  /\ [][HoldFrame =>
          /\ currentRecordingWriter' # 0
          /\ openWriters' = {currentRecordingWriter'}
          /\ currentRecordingWriter # 0 => currentRecordingWriter' = currentRecordingWriter
          /\ currentRecordingWriter = 0 => currentRecordingWriter' = nextSession
          /\ recordingTimeoutTimer' # 0
          /\ recordingPending' = {recordingTimeoutTimer'}]_vars
  /\ [](recordingPending # {} => currentRecordingWriter # 0)
  /\ [][(recordingPending # {} /\ UNCHANGED <<scannerState, pendingTunes>>
            /\ RecordingTimeoutFires) =>
          /\ doneCount' = [doneCount EXCEPT ![currentRecordingPath] = @ + 1]
          /\ currentRecordingWriter' = 0
          /\ openWriters' = {}
          /\ recordingPending' = {}]_vars
  /\ [](\A s \in Sessions : doneCount[s] <= 1)

\* Held, never scanned: the first session was finalized and a second one is
\* open with its timeout armed.
C6_Witness ==
  /\ ~scannerState.isScanning
  /\ scannerState.profileId = 0
  /\ isRecordingEnabled
  /\ doneCount[1] = 1
  /\ currentRecordingWriter = 2
  /\ recordingPending = {recordingTimeoutTimer}

\* C7, first half: while scanning, a frame never arms or re-arms the
\* recording timeout.
C7_FramesLeaveTimeoutAlone ==
  [][(AudioData /\ scannerState.isScanning) =>
       UNCHANGED <<recordingTimeoutTimer, recordingPending>>]_vars

\* C7: while scanning, receiving a payload never starts or restarts the
\* recording timeout, and the recording timeout never finalizes a recording
\* while the scanner is scanning.
C7_NoRecordingTimeoutWhileScanning ==
  /\ C7_FramesLeaveTimeoutAlone
  /\ [][(RecordingTimeoutFires /\ scannerState.isScanning) =>
          UNCHANGED <<currentRecordingWriter, openWriters, doneCount>>]_vars

\* C8: while scanning with a recording open, the expiry of the unsquelch-wait
\* timer finalizes that recording.
C8_UnsquelchExpiryFinalizes ==
  [][(/\ UnsquelchTimerFires
      /\ scannerState.isScanning
      /\ scannerState.waitingForUnsquelch
      /\ Tuned
      /\ currentRecordingWriter # 0)
     => (currentRecordingWriter' = 0 /\ openWriters' = {})]_vars

\* C9 as claimed: whenever the loaded list is non-empty, the index the
\* scanner reports is a valid index into it.
C9_IndexAlwaysValid ==
  Len(scannerState.frequencies) > 0 =>
    /\ 0 <= reportedIndex(scannerState)
    /\ reportedIndex(scannerState) < Len(scannerState.frequencies)

\* C9, amended: whenever the loaded list is non-empty, the stored index of
\* Scanner.ts is a valid index; the index part_008 derives from the current
\* frequency is either a valid index or -1, and it is -1 exactly when the
\* current entry is the one setFrequencyManually made for a frequency
\* outside the list.
C9_IndexValidOrOutsideProfile ==
  Len(scannerState.frequencies) > 0 =>
    /\ scannerState.currentFrequency # Null
    /\ reportedIndex(scannerState) < Len(scannerState.frequencies)
    /\ IF scannerRev = "stored"
       THEN 0 <= reportedIndex(scannerState)
       ELSE /\ -1 <= reportedIndex(scannerState)
            /\ reportedIndex(scannerState) = -1 <=>
                 scannerState.currentFrequency.Id = 0

\* part_008, scanning a list of three while tuned by hand to a frequency
\* outside it.
C9_Witness ==
  /\ scannerRev = "derived"
  /\ scannerState.isScanning
  /\ Len(scannerState.frequencies) = 3
  /\ getCurrentIndex(scannerState) = -1
  /\ radioFrequency = 163

\* C10: while scanning with hasReceivedActiveSignal = false, a squelched
\* frame moves the scanner at once to the entry at index + 1 (wrapping): that
\* entry is current, its index is the reported one, the radio is asked to
\* tune to it, and no unsquelch-wait timer is started.
C10_SeekAdvancesAtOnce ==
  [][(/\ Frame(TRUE)
      /\ scannerState.isScanning
      /\ ~scannerState.hasReceivedActiveSignal
      /\ Tuned)
     => LET n == Len(scannerState.frequencies)
            next == (reportedIndex(scannerState) + 1) % n
        IN /\ scannerState'.currentFrequency = At(scannerState.frequencies, next)
           /\ reportedIndex(scannerState') = next
           /\ pendingTunes' = Append(pendingTunes,
                                     Tune(At(scannerState.frequencies, next).FrequencyHz, FALSE))
           /\ ~scannerState'.waitingForUnsquelch
           /\ UNCHANGED <<unsquelchTimer, unsquelchPending>>]_vars

\* The current entry is an entry of the loaded list (entries differ in Id).
OnListEntry ==
  \E i \in 1..Len(scannerState.frequencies) :
    scannerState.frequencies[i] = scannerState.currentFrequency

\* 0-based position of the current entry in the loaded list.
EntryIndex ==
  (CHOOSE i \in 1..Len(scannerState.frequencies) :
     scannerState.frequencies[i] = scannerState.currentFrequency) - 1

\* C11, first half: while scanning on a channel that has carried a signal,
\* a squelched frame that finds no wait in progress starts the unsquelch-wait
\* timer and leaves the scanner on the current frequency.
C11_SquelchStartsWait ==
  [][(/\ Frame(TRUE)
      /\ scannerState.isScanning
      /\ scannerState.hasReceivedActiveSignal
      /\ ~scannerState.waitingForUnsquelch)
     => /\ scannerState'.waitingForUnsquelch
        /\ unsquelchTimer' \in unsquelchPending' \ unsquelchPending
        /\ scannerState'.currentFrequency = scannerState.currentFrequency
        /\ pendingTunes' = pendingTunes]_vars

\* C11: ... and when that timer expires while the scanner is still scanning
\* and waiting on an entry of the list, the scanner moves to the entry after
\* the current one, wrapping to the first after the last.
C11_UnsquelchWaitThenAdvance ==
  /\ C11_SquelchStartsWait
  /\ [][(/\ UnsquelchTimerFires
         /\ scannerState.isScanning
         /\ scannerState.waitingForUnsquelch
         /\ Tuned
         /\ OnListEntry)
        => scannerState'.currentFrequency =
             At(scannerState.frequencies,
                (EntryIndex + 1) % Len(scannerState.frequencies))]_vars

\* C12: while scanning, a non-squelched frame leaves the current frequency
\* alone and asks for no tune, sets hasReceivedActiveSignal, and leaves no
\* unsquelch-wait timer pending (so none can cause an advance later).
C12_SignalStaysAndCancelsWait ==
  [][(Frame(FALSE) /\ scannerState.isScanning)
     => /\ scannerState'.currentFrequency = scannerState.currentFrequency
        /\ pendingTunes' = pendingTunes
        /\ scannerState'.hasReceivedActiveSignal
        /\ ~scannerState'.waitingForUnsquelch
        /\ unsquelchPending' = {}]_vars

\* C13: right after stopScan, setFrequencyManually or moveToNext, an
\* unsquelch-wait timer that is still pending is stale: if it fired at once
\* (no frame in between) it would not advance the scanner.
C13_CallsCancelUnsquelchWait ==
  [][(/\ ScannerStop \/ ScannerSetFrequency \/ ScannerMoveToNext
      /\ isRunning
      /\ Tuned)
     => \/ unsquelchPending' = {}
        \/ ~(scannerState'.isScanning /\ scannerState'.waitingForUnsquelch)]_vars

\* C14: scanner:start on a profile with enabled frequencies puts the scanner
\* on the entry after the first entry whose frequency equals the previous
\* current frequency (wrapping), or on the first entry when there is no such
\* entry, with isScanning true and hasReceivedActiveSignal false.
C14_StartResumesAfterMatch ==
  [][\A profileId \in ProfileIds :
       (/\ Len(getEnabledByProfileId(profileId)) > 0
        /\ UNCHANGED <<isRunning, radioFrequency, isRecordingEnabled, recorderState>>
        /\ unsquelchTimer' = 0
        /\ Len(pendingTunes') = Len(pendingTunes) + (IF isRunning THEN 1 ELSE 0)
        /\ ScannerStartProfile(profileId))
       => LET list == getEnabledByProfileId(profileId)
              previous == scannerState.currentFrequency.FrequencyHz
              matches == {i \in 1..Len(list) : list[i].FrequencyHz = previous}
              first == CHOOSE i \in matches : \A j \in matches : i <= j
              start == IF matches = {} THEN 0 ELSE first % Len(list)
          IN /\ scannerState'.isScanning
             /\ ~scannerState'.hasReceivedActiveSignal
             /\ scannerState'.profileId = profileId
             /\ scannerState'.frequencies = list
             /\ scannerState'.currentFrequency = At(list, start)
             /\ scannerRev = "stored" => scannerState'.currentIndex = start]_vars

\* A scan of the list [161, 161, 162] was started while the radio was on
\* 161: the scanner is on the second entry and has asked for its frequency.
C14_Witness ==
  /\ scannerState.isScanning
  /\ scannerState.profileId = 3
  /\ scannerState.currentFrequency = Entry(4, 161)
  /\ ~scannerState.hasReceivedActiveSignal
  /\ radioFrequency = 161
  /\ pendingTunes = <<Tune(161, FALSE)>>
  /\ scannerRev = "stored" => scannerState.currentIndex = 1

\* C15: scanner:start on a profile without enabled frequencies leaves the
\* scanner state as it was, also while a scan of another profile is running.
C15_EmptyProfileLeavesState ==
  [][\A profileId \in ProfileIds :
       (/\ ScannerStartProfile(profileId)
        /\ Len(getEnabledByProfileId(profileId)) = 0
        /\ isRunning
        /\ Tuned)
       => scannerState' = scannerState]_vars


\* Jobs whose transcribeFile was invoked and has not completed, in a value
\* of the variable jobs.
InFlight(js) == {j \in Jobs : js[j].phase \in {"model", "whisper"}}

\* C16: at most one transcription runs at any time: never are two jobs
\* between the invocation of transcribeFile and its completion, and
\* isProcessing is set exactly while one is.
C16_AtMostOneTranscription ==
  /\ Cardinality(InFlight(jobs)) <= 1
  /\ isProcessing <=> InFlight(jobs) # {}

\* One job has completed, the second runs, three more wait behind it.
C16_Witness ==
  /\ jobs[1].phase = "done"
  /\ jobs[2].phase = "whisper"
  /\ transcriptionQueue = <<3, 4, 5>>

\* C17: jobs are started and settled in the order they were queued (jobs are
\* numbered in that order): both logs count up from 1, a job starts only when
\* every earlier job is settled, and the waiting jobs are the following
\* numbers in order.
C17_FifoOrder ==
  /\ startLog = [i \in 1..Len(startLog) |-> i]
  /\ settleLog = [i \in 1..Len(settleLog) |-> i]
  /\ Len(settleLog) <= Len(startLog)
  /\ Len(startLog) <= Len(settleLog) + 1
  /\ transcriptionQueue = [i \in 1..Len(transcriptionQueue) |-> Len(startLog) + i]

\* Three jobs settled in order, the fourth running, the fifth waiting.
C17_Witness ==
  /\ settleLog = <<1, 2, 3>>
  /\ startLog = <<1, 2, 3, 4>>
  /\ transcriptionQueue = <<5>>

\* C18: a job is dequeued at most once and settled at most once, by resolve
\* or by reject and not both; a job whose transcription has completed was
\* dequeued once and settled once, and no other job is settled.
C18_SettledExactlyOnce ==
  \A j \in Jobs :
    /\ jobs[j].dequeues <= 1
    /\ jobs[j].resolves + jobs[j].rejects <= 1
    /\ jobs[j].phase = "done" <=> jobs[j].resolves + jobs[j].rejects = 1
    /\ jobs[j].phase \in {"model", "whisper", "done"} <=> jobs[j].dequeues = 1

\* One job resolved, one rejected, a third running.
C18_Witness ==
  /\ jobs[1].resolves = 1 /\ jobs[1].rejects = 0
  /\ jobs[2].resolves = 0 /\ jobs[2].rejects = 1
  /\ jobs[3].phase = "whisper"

\* C19: the step that rejects a job marks its recording 'failed' and leaves
\* the queue going: with no job waiting isProcessing is cleared, otherwise
\* the oldest waiting job is the one now running; and a completed job's
\* recording is 'failed' if it was rejected, 'success' if it was resolved.
C19_FailureDoesNotBlock ==
  /\ [][\A j \in Jobs :
          jobs'[j].rejects > jobs[j].rejects
          => /\ jobs'[j].status = "failed"
             /\ IF transcriptionQueue = <<>>
                THEN ~isProcessing' /\ InFlight(jobs') = {}
                ELSE /\ InFlight(jobs') = {Head(transcriptionQueue)}
                     /\ transcriptionQueue' = Tail(transcriptionQueue)
                     /\ isProcessing']_vars
  /\ [](\A j \in Jobs :
          jobs[j].phase = "done"
          => jobs[j].status = IF jobs[j].rejects = 1 THEN "failed" ELSE "success")

\* The first job failed, the second one succeeded after it.
C19_Witness ==
  /\ jobs[1].status = "failed"
  /\ jobs[2].status = "success"
  /\ settleLog = <<1, 2>>

\* C20: every recording session that was opened and is closed has had
\* doneRecording called for its path exactly once, and no path is handed to
\* doneRecording twice.
C20_OneCallbackPerClosedSession ==
  \A s \in Sessions :
    /\ doneCount[s] <= 1
    /\ (s < nextSession /\ s \notin openWriters) => doneCount[s] = 1

\* C21: a shutdown step (stopSDR or the will-quit handler) taken while a
\* recording session is open leaves no session open and no recording
\* timeout pending, and has put the session's path through doneRecording,
\* as finalizeRecording does for every other finalized recording.
C21_ShutdownFinalizesRecording ==
  [][((SdrStop \/ WillQuit) /\ currentRecordingWriter # 0) =>
       /\ openWriters' = {}
       /\ currentRecordingWriter' = 0
       /\ recordingPending' = {}
       /\ doneCount' = [doneCount EXCEPT ![currentRecordingPath] = @ + 1]]_vars

\* The stopSDR half of C21, which holds.
C21_StopSdrFinalizesRecording ==
  [][(SdrStop /\ currentRecordingWriter # 0) =>
       /\ openWriters' = {}
       /\ currentRecordingWriter' = 0
       /\ recordingPending' = {}
       /\ doneCount' = [doneCount EXCEPT ![currentRecordingPath] = @ + 1]]_vars

\* C22: a scan advance whose tune fails leaves the scanner state as it was.
\* In the model a tune fails when the SDR is not running (setFrequency
\* throws); frames do not arrive then, so the advances that can fail are the
\* expiry of the unsquelch wait and the manual scanner:moveToNext.
C22_FailedAdvanceLeavesState ==
  [][((UnsquelchTimerFires \/ ScannerMoveToNext) /\ ~isRunning) =>
       scannerState' = scannerState]_vars

\* C23: a squelched frame that arrives while recording is enabled changes
\* nothing of the recorder (no write, no new session, the pending recording
\* timeout and the open session stay as they are), and the scanner still
\* acts on the squelch flag: it advances when no signal was heard on the
\* channel, and starts the unsquelch wait when one was.
C23_SquelchedFrameSkipsRecorder ==
  [][(isRecordingEnabled /\ isRunning /\ UNCHANGED <<isRunning, isRecordingEnabled>>
        /\ Frame(TRUE)) =>
       /\ UNCHANGED recorderState
       /\ (scannerState.isScanning /\ ~scannerState.hasReceivedActiveSignal)
            => Len(pendingTunes') = Len(pendingTunes) + 1
       /\ (scannerState.isScanning /\ scannerState.hasReceivedActiveSignal)
            => /\ scannerState'.waitingForUnsquelch
               /\ unsquelchPending' # {}]_vars

\* A squelched frame has reached the scanner (it waits for unsquelch) while a
\* recording with a pending timeout is open.
C23_Witness ==
  /\ isRecordingEnabled
  /\ currentRecordingWriter # 0
  /\ recordingTimeoutTimer \in recordingPending
  /\ scannerState.waitingForUnsquelch
  /\ unsquelchPending # {}

\* The date and time an ISO string 'YYYY-MM-DDTHH:mm:ss' denotes;
\* NoTimestamp for any other string.
DateTimeOf(datetime) ==
  IF /\ Len(datetime) = 19
     /\ \A i \in {5, 8} : datetime[i] = "-"
     /\ datetime[11] = "T"
     /\ \A i \in {14, 17} : datetime[i] = ":"
     /\ \A i \in (1..19) \ {5, 8, 11, 14, 17} : isDigit(datetime[i])
  THEN Timestamp(toNumber(SubSeq(datetime, 1, 4)), toNumber(SubSeq(datetime, 6, 7)),
                 toNumber(SubSeq(datetime, 9, 10)), toNumber(SubSeq(datetime, 12, 13)),
                 toNumber(SubSeq(datetime, 15, 16)), toNumber(SubSeq(datetime, 18, 19)))
  ELSE NoTimestamp

ExampleFileName ==
  <<"1", "6", "1", "-", "1", "7", "5", "_", "0", "1", "-", "2", "0", "-",
    "2", "0", "2", "5", "-", "0", "6", "-", "1", "9", "-", "4", "5",
    ".", "w", "a", "v">>

\* C24: for a frequency that is a whole number of kHz, parsing the name that
\* createRecordingFileName made gives back the frequency in Hz and the date
\* and time; 161175000 Hz at 2025-01-20 06:19:45 is named
\* '161-175_01-20-2025-06-19-45.wav'.
C24_FileNameRoundTrip ==
  /\ (naming.fileName # <<>> /\ naming.frequencyHz = 161175000
        /\ naming.timestamp = Timestamp(2025, 1, 20, 6, 19, 45))
       => naming.fileName = ExampleFileName
  /\ (naming.parsed # NoParse /\ naming.frequencyHz % 1000 = 0)
       => /\ naming.parsed.frequency = naming.frequencyHz
          /\ DateTimeOf(naming.parsed.datetime) = naming.timestamp

\* The example of the claim has been named and parsed back.
C24_Witness ==
  /\ naming.fileName = ExampleFileName
  /\ naming.parsed.frequency = 161175000
  /\ DateTimeOf(naming.parsed.datetime) = Timestamp(2025, 1, 20, 6, 19, 45)

\* C25: a recording whose duration doneRecording found below the minimum is
\* deleted and has no row in the store and no transcription job; one at or
\* above the minimum is kept, has exactly one row, made with status
\* 'pending', and was handed to queueTranscription exactly once, as a job of
\* its own that is dequeued at most once.  Before doneRecording has the
\* duration, nothing has been done with the file.
C25_MinimumDurationFilter ==
  \A file \in Files :
    LET rec == recordingStore.files[file]
    IN /\ rec.phase # "done" =>
            ~rec.deleted /\ rec.rows = <<>> /\ rec.enqueued = 0
       /\ (rec.phase = "done" /\ ~rec.threw /\ rec.durationMs < rec.minDuration) =>
            rec.deleted /\ rec.rows = <<>> /\ rec.enqueued = 0 /\ rec.job = 0
       /\ (rec.phase = "done" /\ ~rec.threw /\ rec.durationMs >= rec.minDuration) =>
            /\ ~rec.deleted
            /\ rec.rows = <<"pending">>
            /\ rec.enqueued = 1
            /\ rec.job \in Jobs
            /\ jobs[rec.job].phase # "none"
            /\ jobs[rec.job].dequeues <= 1
            /\ Cardinality({i \in 1..Len(transcriptionQueue) :
                              transcriptionQueue[i] = rec.job})
                 = (IF jobs[rec.job].phase = "queued" THEN 1 ELSE 0)
            /\ \A g \in Files \ {file} : recordingStore.files[g].job # rec.job

\* One recording was deleted as too short and one of exactly the minimum
\* duration was registered and queued.
C25_Witness ==
  \E short, kept \in Files :
    /\ recordingStore.files[short].phase = "done"
    /\ recordingStore.files[short].deleted
    /\ recordingStore.files[short].durationMs = 999
    /\ recordingStore.files[short].minDuration = 1000
    /\ recordingStore.files[kept].phase = "done"
    /\ recordingStore.files[kept].durationMs = 1000
    /\ recordingStore.files[kept].minDuration = 1000
    /\ recordingStore.files[kept].rows = <<"pending">>
    /\ recordingStore.files[kept].enqueued = 1

\* C26: in every reachable state at most one unsquelch-wait timeout is
\* scheduled and not yet fired.
C26_AtMostOneUnsquelchTimer == Cardinality(unsquelchPending) <= 1

\* The part of C26 that holds: a squelched frame that arrives while the
\* scanner waits for unsquelch schedules nothing and leaves the running
\* timeout as it is.
C26_WaitingFrameStartsNoTimer ==
  [][(Frame(TRUE) /\ scannerState.isScanning /\ scannerState.waitingForUnsquelch) =>
       UNCHANGED <<unsquelchTimer, unsquelchPending>>]_vars

\* C26 for Scanner.ts alone, which has no scanner:moveToNext.
C26_StoredAtMostOneUnsquelchTimer ==
  scannerRev = "stored" => Cardinality(unsquelchPending) <= 1

\* C27: scanner:moveToNext while the scanner is held.  With an empty list it
\* changes nothing; with a list loaded and the scanner on one of its entries
\* it makes the next entry of the list (wrapping) the current one, resets
\* hasReceivedActiveSignal and asks the radio for that entry's frequency.
C27_MoveToNextWhileHeld ==
  [][(ScannerMoveToNext /\ ~scannerState.isScanning) =>
       IF Len(scannerState.frequencies) = 0
       THEN UNCHANGED <<scannerState, unsquelchTimer, unsquelchPending, pendingTunes>>
       ELSE (OnListEntry /\ isRunning) =>
              LET next == (EntryIndex + 1) % Len(scannerState.frequencies)
              IN /\ scannerState'.currentFrequency = At(scannerState.frequencies, next)
                 /\ ~scannerState'.hasReceivedActiveSignal
                 /\ pendingTunes' = Append(pendingTunes,
                      Tune(At(scannerState.frequencies, next).FrequencyHz, FALSE))]_vars

\* C27 on lists whose entries have distinct frequencies.
C27_MoveToNextWhileHeldDistinct ==
  [][(ScannerMoveToNext /\ ~scannerState.isScanning) =>
       IF Len(scannerState.frequencies) = 0
       THEN UNCHANGED <<scannerState, unsquelchTimer, unsquelchPending, pendingTunes>>
       ELSE (OnListEntry /\ isRunning /\ scannerState.profileId # 3) =>
              LET next == (EntryIndex + 1) % Len(scannerState.frequencies)
              IN /\ scannerState'.currentFrequency = At(scannerState.frequencies, next)
                 /\ ~scannerState'.hasReceivedActiveSignal
                 /\ pendingTunes' = Append(pendingTunes,
                      Tune(At(scannerState.frequencies, next).FrequencyHz, FALSE))]_vars

\* The step in which a successful setFrequencyManually(f) records f in the
\* scanner state: the call itself in part_008, the return of the awaited
\* tune in Scanner.ts.
ManualTracked(f) ==
  \/ /\ scannerRev = "derived"
     /\ ScannerSetFrequency
     /\ Len(pendingTunes') = Len(pendingTunes) + 1
     /\ pendingTunes'[Len(pendingTunes')].freq = f
  \/ /\ scannerRev = "stored"
     /\ TuneComplete
     /\ pendingTunes # <<>>
     /\ Head(pendingTunes).track
     /\ Head(pendingTunes).freq = f

\* C28: when setFrequencyManually(f) has succeeded and f is the frequency of
\* an entry of the loaded list, that entry is the current entry and the
\* current index is its position, so that the next advance goes to the
\* entry after it.
C28_ManualSelectsListEntry ==
  [][\A f \in ManualFreqs :
       (ManualTracked(f) /\ findIndex(scannerState'.frequencies, f) # -1) =>
         LET pos == findIndex(scannerState'.frequencies, f)
         IN /\ scannerState'.currentFrequency = At(scannerState'.frequencies, pos)
            /\ reportedIndex(scannerState') = pos]_vars

\* C28 for part_008 alone, where the index is found from the frequency.
C28_DerivedManualSelectsListEntry ==
  [][\A f \in ManualFreqs :
       (scannerRev = "derived" /\ ManualTracked(f)
          /\ findIndex(scannerState'.frequencies, f) # -1) =>
         LET pos == findIndex(scannerState'.frequencies, f)
         IN /\ scannerState'.currentFrequency = At(scannerState'.frequencies, pos)
            /\ reportedIndex(scannerState') = pos]_vars

\* C29: scanner:stop leaves profileId, the loaded list, the current index
\* and the current frequency as they are and sets isScanning,
\* hasReceivedActiveSignal and waitingForUnsquelch to false; a frame that
\* arrives while the scanner is stopped changes nothing of the scanner, sets
\* no timer and asks for no tune.
C29_StopKeepsPosition ==
  [][/\ (~scannerState'.isScanning /\ UNCHANGED <<isRunning, recorderState>>
           /\ ScannerStop) =>
          scannerState' = [scannerState EXCEPT !.isScanning = FALSE,
                                               !.hasReceivedActiveSignal = FALSE,
                                               !.waitingForUnsquelch = FALSE]
     /\ (~scannerState.isScanning /\ isRunning /\ isRunning' /\ AudioData) =>
          UNCHANGED <<scannerState, unsquelchTimer, unsquelchPending,
                      pendingTunes>>]_vars

\* The scanner was stopped on the second entry of profile 1 and still stands
\* there, with the radio on that frequency and a recording made in hold mode.
C29_Witness ==
  /\ ~scannerState.isScanning
  /\ scannerState.profileId = 1
  /\ scannerState.frequencies = getEnabledByProfileId(1)
  /\ scannerState.currentFrequency = Entry(2, 162)
  /\ reportedIndex(scannerState) = 1
  /\ ~scannerState.hasReceivedActiveSignal
  /\ isRunning /\ radioFrequency = 162
  /\ currentRecordingWriter # 0
  /\ recordingTimeoutTimer \in recordingPending

\* C30: when writer.end() throws in finalizeRecording, the writer and path
\* variables are cleared all the same and the recording timeout is no longer
\* scheduled; and whenever no session is open, a non-squelched frame that
\* arrives with recording enabled opens a new one.
C30_FinalizeFailOpen ==
  [][/\ (RecordingTimeoutFiresEndThrows \/ SdrStopRecordingEndThrows) =>
          /\ currentRecordingWriter' = 0
          /\ currentRecordingPath' = 0
          /\ recordingTimeoutTimer' = 0
          /\ recordingTimeoutTimer \notin recordingPending'
     /\ (Frame(FALSE) /\ isRecordingEnabled /\ currentRecordingWriter = 0) =>
          /\ currentRecordingWriter' = nextSession
          /\ currentRecordingPath' = nextSession
          /\ nextSession \in openWriters']_vars

\* A session is open that was opened after the finalize of the one before
\* it had failed: the earlier writer was never ended and its file never
\* reached doneRecording.
C30_Witness ==
  /\ currentRecordingWriter = 2
  /\ openWriters = {1, 2}
  /\ doneCount[1] = 0
  /\ recordingTimeoutTimer \in recordingPending

\* C31: when the write of a frame's payload throws, the session is finalized
\* at once (no session is open afterwards, its path went to doneRecording)
\* and the call of writeAudioToRecording ends in an error its caller sees.
C31_WriteErrorFinalizesAndSurfaces ==
  [][FrameWriteThrows =>
       /\ currentRecordingWriter' = 0
       /\ currentRecordingPath' = 0
       /\ openWriters' = {}
       /\ recordAudioDataWriteThrows(RecorderCtx, FALSE, scannerState'.isScanning).threw]_vars

\* The part of C31 that holds: the write error finalizes the session.
C31_WriteErrorFinalizes ==
  [][FrameWriteThrows =>
       /\ currentRecordingWriter' = 0
       /\ currentRecordingPath' = 0
       /\ (openWriters \subseteq {currentRecordingWriter} => openWriters' = {})
       /\ currentRecordingPath # 0 =>
            doneCount' = [doneCount EXCEPT ![currentRecordingPath] = @ + 1]]_vars

\* A squelched frame advances the scan and starts the only tune in flight.
FrameAdvance ==
  /\ scannerState.isScanning
  /\ pendingTunes = <<>>
  /\ Frame(TRUE)
  /\ Len(pendingTunes') = 1

\* C32: while the tune of a scan advance is in flight, a squelched frame
\* changes nothing in the scan state and starts no further tune: the frames
\* arriving during one pending tune advance the scanner by one entry in total.
\* (c1 is the scanner after the advancing frame, c2 after the frame that
\* follows it before the tune completes.)
C32_PendingTuneAbsorbsFrames ==
  [][FrameAdvance =>
       LET c1 == handleAudioData(ScannerCtx, TRUE)
           c2 == handleAudioData(c1, TRUE)
       IN /\ c1.st = scannerState' /\ c1.tunes = pendingTunes'
          /\ c2.st = c1.st
          /\ c2.tunes = c1.tunes]_vars

\* scanner:start whose tune throws (the SDR is not running): startScan's catch
\* block returns {success: false}.
ScannerStartFails ==
  \E profileId \in ProfileIds :
    /\ startScan(ScannerCtx, profileId).threw
    /\ ScannerStartProfile(profileId)

\* C33: when the tune of startScan fails, the scanner is not left scanning
\* (isScanning is false after the failed start), so that later frames are
\* not handled as scan frames.
C33_FailedStartNotScanning ==
  [][ScannerStartFails => ~scannerState'.isScanning]_vars

\* Job j is in the sequence log.
Logged(log, j) == \E i \in 1..Len(log) : log[i] = j

\* C34: if every invocation of the transcription engine completes, every
\* enqueued job is eventually started (transcribeFile is called for it) and
\* settled (its promise is resolved or rejected, once), and it is then no
\* longer in the queue, whatever is enqueued after it.
C34_EveryJobSettles ==
  \A j \in Jobs :
    (jobs[j].phase # "none") ~>
      (/\ jobs[j].phase = "done"
       /\ Logged(startLog, j)
       /\ Logged(settleLog, j)
       /\ jobs[j].resolves + jobs[j].rejects = 1
       /\ ~Logged(transcriptionQueue, j))

\* Every job up to the last one has passed through the queue, was started
\* and was settled, in the order of the enqueues; the queue is empty again.
C34_Witness ==
  /\ jobs[MaxJobs].phase = "done"
  /\ jobs[MaxJobs].dequeues = 1
  /\ jobs[MaxJobs].resolves + jobs[MaxJobs].rejects = 1
  /\ Len(settleLog) = MaxJobs
  /\ startLog = settleLog
  /\ transcriptionQueue = <<>>

\* C35: sdr:stopRecording with a session open finalizes that session in the
\* same step (the writer is ended, its file goes to doneRecording once, no
\* session and no recording timeout are left), and while recording is
\* disabled no session is open, whatever frames arrive.
C35_StopRecordingFinalizesNow ==
  /\ [][(currentRecordingWriter # 0 /\ ~isRecordingEnabled'
           /\ UNCHANGED <<scannerState, isRunning>> /\ SdrStopRecording) =>
          /\ currentRecordingWriter' = 0
          /\ currentRecordingPath' = 0
          /\ recordingTimeoutTimer' = 0
          /\ recordingPending' = {}
          /\ openWriters' = openWriters \ {currentRecordingWriter}
          /\ doneCount' = [doneCount EXCEPT ![currentRecordingPath] = @ + 1]]_vars
  /\ [](~isRecordingEnabled =>
          (currentRecordingWriter = 0 /\ openWriters = {} /\ recordingPending = {}))

\* Recording is disabled while the SDR runs and the scan holds on a channel
\* with a signal: the first session was finalized and none is open.
C35_Witness ==
  /\ ~isRecordingEnabled
  /\ isRunning
  /\ doneCount[1] = 1
  /\ nextSession = 2
  /\ currentRecordingWriter = 0
  /\ scannerState.isScanning
  /\ scannerState.hasReceivedActiveSignal

\* C36: between events, when no transcription runs (isProcessing is false)
\* the queue is empty; no job is in phase "queued" while the worker is idle.
C36_IdleWorkerEmptyQueue ==
  ~isProcessing =>
    /\ transcriptionQueue = <<>>
    /\ \A j \in Jobs : jobs[j].phase # "queued"

\* The worker is idle again after three jobs, two of which waited in the
\* queue behind a running one.
C36_Witness ==
  /\ ~isProcessing
  /\ nextJob = 4
  /\ settleLog = <<1, 2, 3>>
  /\ \A j \in 1..3 : jobs[j].dequeues = 1

\* C37: in every reachable scanner state waitingForUnsquelch implies
\* isScanning and hasReceivedActiveSignal: the scanner never waits for
\* unsquelch while held, nor on a channel whose signal flag is not set.
C37_WaitingImpliesScanningAndSignal ==
  scannerState.waitingForUnsquelch =>
    (scannerState.isScanning /\ scannerState.hasReceivedActiveSignal)

\* The scan waits for unsquelch on the second entry of its list, with the
\* wait timer pending.
C37_Witness ==
  /\ scannerState.waitingForUnsquelch
  /\ scannerState.isScanning
  /\ reportedIndex(scannerState) = 1
  /\ unsquelchTimer \in unsquelchPending
  /\ pendingTunes = <<>>

Alternates(log) ==
  \A i \in 1..Len(log) : log[i] = IF i % 2 = 1 THEN "started" ELSE "stopped"

\* C39: 'scanner:started' and 'scanner:stopped' alternate strictly, beginning
\* with started, and between events isScanning is true exactly when the last
\* notification sent is a started one (also after a start while scanning
\* and after a start that failed).
C39_NotificationsAlternate ==
  /\ Alternates(notifications)
  /\ scannerState.isScanning <=> (Len(notifications) % 2 = 1)

\* Speakers that were made and are not closed.
OpenSpeakers == {p \in Plays : playback.plays[p].phase = "playing"}

\* C40: at most one speaker is playing; state.isPlaying is true exactly when
\* the state holds a speaker, which then is an open one; and the close or
\* error event of a speaker the state does not hold leaves the state, and
\* with it the newer playback, as it is.
C40_SinglePlayback ==
  /\ [](Cardinality(OpenSpeakers) <= 1)
  /\ [](playback.state.isPlaying <=> playback.state.speaker # 0)
  /\ [](playback.state.speaker # 0 => playback.state.speaker \in OpenSpeakers)
  /\ [][\A p \in OpenSpeakers :
          (p # playback.state.speaker /\ playback'.plays[p].phase = "closed"
             /\ SpeakerCloses) =>
            playback'.state = playback.state]_vars

====
